---- MODULE Spec2Model ----
(***************************************************************************)
(* ESP8266 dual sensor demo (EEGradStudent/EE570, ESP_Database_Project).   *)
(*                                                                         *)
(* The specifications share the variables below:                           *)
(*   SpecSwitch    check_switch() polled at arbitrary instants             *)
(*   SpecWrap      the same around the wrap of the millisecond counter     *)
(*   Spec          setup() followed by the repeated loop() of main.cpp     *)
(*   FairSpec      Spec with the fairness of the straight-line loop body   *)
(*   FairBootSpec  FairSpec with the fairness of the steps of setup()      *)
(*   SpecHeld      setup() and loop() with the buttons held down           *)
(*   SpecEnc       urlEncode() applied to bounded byte strings             *)
(*   SpecFn        getTimeIsoUtc(), read_sensor_1() and read_sensor_2()    *)
(*                 applied to bounded inputs                               *)
(*                                                                         *)
(* Strings are sequences of byte values (char codes).  The millisecond     *)
(* counter and the two last-fired times are 32-bit unsigned values kept as *)
(* two 16-bit halves [hi, lo], so that now - last wraps as in the code.    *)
(***************************************************************************)
EXTENDS Integers, Sequences, FiniteSets, TLC

VARIABLES
    millis,        \* millis(): 32-bit unsigned millisecond counter
    lastUltraMs,   \* main.cpp:82
    lastSoundMs,   \* main.cpp:82
    ultraPressed,  \* check_switch local, value at the latest poll
    soundPressed,  \* check_switch local, value at the latest poll
    who,           \* latest return value of check_switch
    nPolls,        \* number of check_switch calls so far
    gapUltra,      \* real ms between the latest poll and the previous distance request
    gapSound,      \* real ms between the latest poll and the previous sound request
    sinceUltra,    \* real ms since the latest distance request (saturating)
    sinceSound,    \* real ms since the latest sound request (saturating)
    pc,            \* position of the program
    tzRegion,      \* main.cpp:66
    wifiWaits,     \* iterations of the Wi-Fi wait of setup()
    envPrompt,     \* what arrived on Serial during the boot prompt
    envWifi,       \* iteration of the Wi-Fi wait of setup() at which Wi-Fi is up
    sampled,       \* sensors touched in the current cycle
    dist_cm,       \* loop local
    sound_db,      \* loop local
    isoUtc,        \* loop local
    timeRes,       \* outcome of read_time in the current cycle
    envTime,       \* what the environment showed getTimeIsoUtc in the current cycle
    httpCode,      \* transmit local `code`
    httpResp,      \* transmit local `resp`
    postRet,       \* return value of postToServer in the current cycle
    envHttp,       \* what the environment did to postToServer in the current cycle
    postBody,      \* body handed to https.POST in the current cycle
    postsThisCycle,\* https.POST calls made in the current cycle
    sent,          \* loop local `sent`
    serialLog,     \* status lines printed in the current cycle
    stepsDone,     \* steps of loop() executed in the current cycle
    encIn,         \* urlEncode argument
    encOut,        \* urlEncode result
    encDone,       \* urlEncode has been applied
    fnIn,          \* argument of the function under test
    fnOut,         \* its result
    fnDone         \* the function has been applied

switchVars == <<millis, lastUltraMs, lastSoundMs, ultraPressed, soundPressed, who,
                nPolls, gapUltra, gapSound, sinceUltra, sinceSound>>
bootVars == <<tzRegion, wifiWaits, envPrompt, envWifi>>
loopVars == <<pc, bootVars, sampled, dist_cm, sound_db, isoUtc, timeRes, envTime,
              httpCode, httpResp, postRet, envHttp, postBody, postsThisCycle, sent,
              serialLog, stepsDone>>
encVars == <<encIn, encOut, encDone, fnIn, fnOut, fnDone>>
vars == <<switchVars, loopVars, encVars>>

----------------------------------------------------------------------------
(* Bounds of the model *)

MaxPolls == 1        \* iterations of loop() per behaviour of Spec
MaxHarnessPolls == 4 \* check_switch calls per behaviour of SpecSwitch
MaxHeldPolls == 2    \* iterations of loop() per behaviour of SpecHeld
MaxWifiWaits == 1    \* not-connected iterations of the Wi-Fi wait in setup()
MaxLen == 3          \* length of the urlEncode arguments enumerated

Never == 0 - 1       \* "has not happened"

----------------------------------------------------------------------------
(* Program constants *)

NODE_NONE == 0
NODE_ULTRA == 1
NODE_SOUND == 2
DEBOUNCE == 250

----------------------------------------------------------------------------
(* 32-bit unsigned arithmetic on [hi, lo] halves *)

Two16 == 2 ^ 16

U32(n) == [hi |-> (n \div Two16) % Two16, lo |-> n % Two16]

\* a + d modulo 2^32, d a natural number below 2^31
Add32(a, d) ==
    LET s == a.lo + (d % Two16)
    IN  [hi |-> (a.hi + (d \div Two16) + (s \div Two16)) % Two16, lo |-> s % Two16]

\* a - b modulo 2^32
Sub32(a, b) ==
    LET borrow == IF a.lo < b.lo THEN 1 ELSE 0
    IN  [hi |-> (a.hi - b.hi - borrow + 2 * Two16) % Two16,
         lo |-> (a.lo - b.lo + Two16) % Two16]

\* a > n for a natural number n below 2^16
Gt32(a, n) == a.hi > 0 \/ a.lo > n

----------------------------------------------------------------------------
(* Input debouncer: check_switch, main.cpp:89-104 *)

\* Variant of check_switch in which the distance test reads the sound button's time.
check_switch_wrong_last(ultra, sound, now, lastU, lastS) ==
    IF ultra /\ Gt32(Sub32(now, lastS), DEBOUNCE)
    THEN [ret |-> NODE_ULTRA, lastUltraMs |-> now, lastSoundMs |-> lastS]
    ELSE IF sound /\ Gt32(Sub32(now, lastS), DEBOUNCE)
    THEN [ret |-> NODE_SOUND, lastUltraMs |-> lastU, lastSoundMs |-> now]
    ELSE [ret |-> NODE_NONE, lastUltraMs |-> lastU, lastSoundMs |-> lastS]

\* Variant of check_switch that tests the sound button first.
check_switch_sound_first(ultra, sound, now, lastU, lastS) ==
    IF sound /\ Gt32(Sub32(now, lastS), DEBOUNCE)
    THEN [ret |-> NODE_SOUND, lastUltraMs |-> lastU, lastSoundMs |-> now]
    ELSE IF ultra /\ Gt32(Sub32(now, lastU), DEBOUNCE)
    THEN [ret |-> NODE_ULTRA, lastUltraMs |-> now, lastSoundMs |-> lastS]
    ELSE [ret |-> NODE_NONE, lastUltraMs |-> lastU, lastSoundMs |-> lastS]

\* Variant of check_switch that stamps both buttons when the distance button wins.
check_switch_stamp_both(ultra, sound, now, lastU, lastS) ==
    IF ultra /\ Gt32(Sub32(now, lastU), DEBOUNCE)
    THEN [ret |-> NODE_ULTRA, lastUltraMs |-> now, lastSoundMs |-> now]
    ELSE IF sound /\ Gt32(Sub32(now, lastS), DEBOUNCE)
    THEN [ret |-> NODE_SOUND, lastUltraMs |-> lastU, lastSoundMs |-> now]
    ELSE [ret |-> NODE_NONE, lastUltraMs |-> lastU, lastSoundMs |-> lastS]

\* Variant of check_switch with a debounce window of ten times DEBOUNCE.
check_switch_long_window(ultra, sound, now, lastU, lastS) ==
    IF ultra /\ Gt32(Sub32(now, lastU), 10 * DEBOUNCE)
    THEN [ret |-> NODE_ULTRA, lastUltraMs |-> now, lastSoundMs |-> lastS]
    ELSE IF sound /\ Gt32(Sub32(now, lastS), 10 * DEBOUNCE)
    THEN [ret |-> NODE_SOUND, lastUltraMs |-> lastU, lastSoundMs |-> now]
    ELSE [ret |-> NODE_NONE, lastUltraMs |-> lastU, lastSoundMs |-> lastS]

\* ultra, sound: the two pins read LOW; now: millis(); lastU, lastS: the globals.
\* The result carries the return value and the globals after the call.
check_switch(ultra, sound, now, lastU, lastS) ==
    IF ultra /\ Gt32(Sub32(now, lastU), DEBOUNCE)
    THEN [ret |-> NODE_ULTRA, lastUltraMs |-> now, lastSoundMs |-> lastS]
    ELSE IF sound /\ Gt32(Sub32(now, lastS), DEBOUNCE)
    THEN [ret |-> NODE_SOUND, lastUltraMs |-> lastU, lastSoundMs |-> now]
    ELSE [ret |-> NODE_NONE, lastUltraMs |-> lastU, lastSoundMs |-> lastS]

----------------------------------------------------------------------------
(* Real elapsed time since a request, kept beside the 32-bit counter *)

SinceCap == 4 * DEBOUNCE

Min(a, b) == IF a < b THEN a ELSE b

Adv(since, d) == IF since = Never THEN Never ELSE Min(since + d, SinceCap)

\* d ms pass: the counter and the elapsed times move, nothing else.
Elapse(d) ==
    /\ millis' = Add32(millis, d)
    /\ sinceUltra' = Adv(sinceUltra, d)
    /\ sinceSound' = Adv(sinceSound, d)

\* d ms pass, check_switch runs with the pins reading (ultra, sound), and the
\* caller then waits idleWait ms if no request came out of it.
SwitchPoll(d, ultra, sound, idleWait) ==
    LET now == Add32(millis, d)
        r == check_switch(ultra, sound, now, lastUltraMs, lastSoundMs)
        gU == Adv(sinceUltra, d)
        gS == Adv(sinceSound, d)
        after == IF r.ret = NODE_NONE THEN idleWait ELSE 0
    IN  /\ ultraPressed' = ultra
        /\ soundPressed' = sound
        /\ who' = r.ret
        /\ lastUltraMs' = r.lastUltraMs
        /\ lastSoundMs' = r.lastSoundMs
        /\ nPolls' = nPolls + 1
        /\ gapUltra' = gU
        /\ gapSound' = gS
        /\ millis' = Add32(now, after)
        /\ sinceUltra' = Adv(IF r.ret = NODE_ULTRA THEN 0 ELSE gU, after)
        /\ sinceSound' = Adv(IF r.ret = NODE_SOUND THEN 0 ELSE gS, after)

InitSwitchVars ==
    /\ millis = U32(0)
    /\ lastUltraMs = U32(0)
    /\ lastSoundMs = U32(0)
    /\ ultraPressed = FALSE
    /\ soundPressed = FALSE
    /\ who = NODE_NONE
    /\ nPolls = 0
    /\ gapUltra = Never
    /\ gapSound = Never
    /\ sinceUltra = Never
    /\ sinceSound = Never

----------------------------------------------------------------------------
(* Strings: sequences of byte values *)

EmptyStr == << >>

Range(s) == {s[i] : i \in 1..Len(s)}

----------------------------------------------------------------------------
(* Configuration strings, main.cpp:66, 78, 79 *)

\* "America/Los_Angeles"
tzDefault == <<65, 109, 101, 114, 105, 99, 97, 47, 76, 111, 115, 95, 65, 110, 103,
               101, 108, 101, 115>>
\* "Ultrasonic_Sensor"
nodeUltraName == <<85, 108, 116, 114, 97, 115, 111, 110, 105, 99, 95, 83, 101, 110,
                   115, 111, 114>>
\* "Sound_Sensor_MAX4466"
nodeSoundName == <<83, 111, 117, 110, 100, 95, 83, 101, 110, 115, 111, 114, 95, 77,
                   65, 88, 52, 52, 54, 54>>

----------------------------------------------------------------------------
(* Percent-encoding: urlEncode, sendRequest.cpp:81-95 *)

\* "0123456789ABCDEF"
hex == <<48, 49, 50, 51, 52, 53, 54, 55, 56, 57, 65, 66, 67, 68, 69, 70>>

\* isalnum() in the C locale
isalnum(c) == c \in 48..57 \/ c \in 65..90 \/ c \in 97..122

\* Variant of encodeByte that emits the low nibble first.
encodeByte_swapped(c) ==
    IF isalnum(c) \/ c = 45 \/ c = 95 \/ c = 46 \/ c = 126
    THEN <<c>>
    ELSE <<37, hex[(c % 16) + 1], hex[((c \div 16) % 16) + 1]>>

\* Body of the for loop: '-' 45, '_' 95, '.' 46, '~' 126 and '%' 37.
encodeByte(c) ==
    IF isalnum(c) \/ c = 45 \/ c = 95 \/ c = 46 \/ c = 126
    THEN <<c>>
    ELSE <<37, hex[((c \div 16) % 16) + 1], hex[(c % 16) + 1]>>

RECURSIVE urlEncodeFrom(_, _, _)
urlEncodeFrom(s, i, out) ==
    IF i > Len(s) THEN out ELSE urlEncodeFrom(s, i + 1, out \o encodeByte(s[i]))

urlEncode(s) == urlEncodeFrom(s, 1, EmptyStr)

----------------------------------------------------------------------------
(* Numbers: a float is [isnan, num, den], the rational num/den, or NaN *)

Zero == [isnan |-> FALSE, num |-> 0, den |-> 1]
NaN == [isnan |-> TRUE, num |-> 0, den |-> 1]

RECURSIVE Digits(_)
Digits(n) == IF n < 10 THEN <<48 + n>> ELSE Digits(n \div 10) \o <<48 + (n % 10)>>

\* n in decimal, zero-padded to two (four) places
Pad2(n) == <<48 + ((n \div 10) % 10), 48 + (n % 10)>>
Pad4(n) == Pad2(n \div 100) \o Pad2(n % 100)

\* String(x, 2): two decimals, rounded to nearest; "nan" for the NaN sentinel.
String2(x) ==
    IF x.isnan THEN <<110, 97, 110>>
    ELSE LET h == (2 * 100 * x.num + x.den) \div (2 * x.den)
         IN  Digits(h \div 100) \o <<46>> \o Pad2(h % 100)

----------------------------------------------------------------------------
(* Sensor readers, main.cpp:115-136 *)

\* Variant of read_sensor_1 that does not halve for the round trip.
read_sensor_1_no_halving(duration) ==
    IF duration = 0 THEN NaN
    ELSE [isnan |-> FALSE, num |-> duration * 343, den |-> 10000]

\* duration: the pulseIn result in microseconds, 0 on the 30 ms timeout.
\* cm = duration * 0.0343 / 2 = duration * 343 / 20000.
read_sensor_1(duration) ==
    IF duration = 0 THEN NaN
    ELSE [isnan |-> FALSE, num |-> duration * 343, den |-> 20000]

SAMPLES == 200
MIDPOINT == 512

Abs(x) == IF x < 0 THEN 0 - x ELSE x
Max(a, b) == IF a > b THEN a ELSE b

\* Fixed-point binary logarithm: y is a value in [1, 2) scaled by 2^14; bits
\* fraction bits are produced by repeated squaring.
RECURSIVE Log2Frac(_, _)
Log2Frac(y, bits) ==
    IF bits = 0 THEN 0
    ELSE LET q == (y * y) \div (2 ^ 14)
         IN  IF q >= 2 ^ 15
             THEN 2 ^ (bits - 1) + Log2Frac(q \div 2, bits - 1)
             ELSE Log2Frac(q, bits - 1)

RECURSIVE Log2Int(_, _)
Log2Int(n, d) == IF n >= 2 * d THEN 1 + Log2Int(n, 2 * d) ELSE 0

\* log2(n / d) in units of 2^-12, for n >= d > 0
Log2Fix(n, d) ==
    LET k == Log2Int(n, d)
    IN  k * (2 ^ 12) + Log2Frac((n * (2 ^ 14)) \div (d * (2 ^ k)), 12)

\* Variant of read_sensor_2 without the floor of the deviation at 1: a smaller
\* deviation has a negative logarithm, and log10f(0) = -inf is clamped to 0.
read_sensor_2_no_floor(sum) ==
    LET dev200 == Abs(sum - MIDPOINT * SAMPLES)
    IN  IF dev200 = 0 THEN Zero
        ELSE IF dev200 >= SAMPLES
        THEN [isnan |-> FALSE,
              num |-> (Log2Fix(dev200, SAMPLES) * 6021) \div (10 * 2 ^ 12), den |-> 100]
        ELSE [isnan |-> FALSE,
              num |-> 0 - ((Log2Fix(SAMPLES, dev200) * 6021) \div (10 * 2 ^ 12)),
              den |-> 100]

\* sum: the sum of the 200 analogRead samples.  level = |sum/200 - 512| floored
\* at 1; db = 20 * log10(level), in hundredths: log10(x) = log2(x) * 0.30103.
read_sensor_2(sum) ==
    LET level200 == Max(Abs(sum - MIDPOINT * SAMPLES), SAMPLES)
        db100 == (Log2Fix(level200, SAMPLES) * 6021) \div (10 * 2 ^ 12)
    IN  [isnan |-> FALSE, num |-> db100, den |-> 100]

----------------------------------------------------------------------------
(* Time resolver: ensureWifi and getTimeIsoUtc, getTImeAPI.cpp:74-170 *)

WIFI_TIMEOUT_MS == 8000
WIFI_POLL_MS == 300
NTP_TIMEOUT_MS == 12000
NTP_POLL_MS == 250
MIN_VALID == 1609459200
NTP_ADD_HOURS == -8
APPEND_Z == 0

\* The environment of one getTimeIsoUtc call:
\*   wifiFast  WiFi.status() reads connected at the first test (line 76)
\*   wifiIdx   index of the first poll of the wait loop that reads connected
\*   clockIdx  index of the first poll of the clock loop at which time(nullptr)
\*             reads `valid`; earlier polls read `stale`
WifiUpAtPoll(env, k) == env.wifiIdx # Never /\ k >= env.wifiIdx
TimeAtPoll(env, k) ==
    IF env.clockIdx # Never /\ k >= env.clockIdx THEN env.valid ELSE env.stale

\* The while loop of ensureWifi; e is millis() - t0.
RECURSIVE ensureWifiLoop(_, _, _)
ensureWifiLoop(env, ms, e) ==
    IF e < ms
    THEN IF WifiUpAtPoll(env, e \div WIFI_POLL_MS)
         THEN [ok |-> TRUE, elapsed |-> e]
         ELSE ensureWifiLoop(env, ms, e + WIFI_POLL_MS)
    ELSE [ok |-> FALSE, elapsed |-> e]

ensureWifi(env, ms) ==
    IF env.wifiFast THEN [ok |-> TRUE, elapsed |-> 0] ELSE ensureWifiLoop(env, ms, 0)

\* Variant of ClockValid that accepts the threshold itself.
ClockValid_ge(now) == now >= MIN_VALID

\* now > MIN_VALID, lines 132 and 137
ClockValid(now) == now > MIN_VALID

\* The while loop of getTimeIsoUtc; e is millis() - t0, now the latest reading.
RECURSIVE ntpWaitLoop(_, _, _)
ntpWaitLoop(env, e, now) ==
    IF e < NTP_TIMEOUT_MS
    THEN LET t == TimeAtPoll(env, e \div NTP_POLL_MS)
         IN  IF ClockValid(t) THEN [now |-> t, elapsed |-> e]
             ELSE ntpWaitLoop(env, e + NTP_POLL_MS, t)
    ELSE [now |-> now, elapsed |-> e]

\* gmtime(): seconds since the epoch to a civil date and time of day.
gmtime(t) ==
    LET days == t \div 86400
        secs == t % 86400
        z == days + 719468
        era == z \div 146097
        doe == z - era * 146097
        yoe == (doe - doe \div 1460 + doe \div 36524 - doe \div 146096) \div 365
        doy == doe - (365 * yoe + yoe \div 4 - yoe \div 100)
        mp == (5 * doy + 2) \div 153
        mon == IF mp < 10 THEN mp + 3 ELSE mp - 9
    IN  [year |-> yoe + era * 400 + (IF mon <= 2 THEN 1 ELSE 0),
         mon |-> mon,
         mday |-> doy - (153 * mp + 2) \div 5 + 1,
         hour |-> secs \div 3600,
         min |-> (secs % 3600) \div 60,
         sec |-> secs % 60]

\* strftime(buf, "%Y-%m-%dT%H:%M:%S", t): '-' 45, 'T' 84, ':' 58
strftime(tm) ==
    Pad4(tm.year) \o <<45>> \o Pad2(tm.mon) \o <<45>> \o Pad2(tm.mday) \o <<84>>
    \o Pad2(tm.hour) \o <<58>> \o Pad2(tm.min) \o <<58>> \o Pad2(tm.sec)

\* Variant of getTimeIsoUtc that formats the time read without the hour offset.
getTimeIsoUtc_no_offset(env) ==
    LET w == ensureWifi(env, WIFI_TIMEOUT_MS)
        c == ntpWaitLoop(env, 0, 0)
    IN  IF ~w.ok
        THEN [ret |-> FALSE, outIso |-> EmptyStr, elapsed |-> w.elapsed,
              log |-> <<"[ntp] WiFi not connected">>]
        ELSE IF ~ClockValid(c.now)
        THEN [ret |-> FALSE, outIso |-> EmptyStr, elapsed |-> w.elapsed + c.elapsed,
              log |-> <<"[ntp] timeout waiting for SNTP">>]
        ELSE [ret |-> TRUE,
              outIso |-> strftime(gmtime(c.now))
                         \o (IF APPEND_Z # 0 THEN <<90>> ELSE EmptyStr),
              elapsed |-> w.elapsed + c.elapsed,
              log |-> << >>]

\* The result carries the return value, outIso, the ms spent and the lines logged.
getTimeIsoUtc(env) ==
    LET w == ensureWifi(env, WIFI_TIMEOUT_MS)
        c == ntpWaitLoop(env, 0, 0)
        shifted == c.now + NTP_ADD_HOURS * 3600
    IN  IF ~w.ok
        THEN [ret |-> FALSE, outIso |-> EmptyStr, elapsed |-> w.elapsed,
              log |-> <<"[ntp] WiFi not connected">>]
        ELSE IF ~ClockValid(c.now)
        THEN [ret |-> FALSE, outIso |-> EmptyStr, elapsed |-> w.elapsed + c.elapsed,
              log |-> <<"[ntp] timeout waiting for SNTP">>]
        ELSE [ret |-> TRUE,
              outIso |-> strftime(gmtime(shifted))
                         \o (IF APPEND_Z # 0 THEN <<90>> ELSE EmptyStr),
              elapsed |-> w.elapsed + c.elapsed,
              log |-> << >>]

----------------------------------------------------------------------------
(* Payload transmitter: postToServer, sendRequest.cpp:100-143 *)

\* The form body as the sequence of its name=value fields, lines 128-132.
FormBody(nodeName, iso, tz, distance_cm, sound_dbv) ==
    << <<"node_name", urlEncode(nodeName)>>,
       <<"measured_iso", urlEncode(iso)>>,
       <<"tz_region", urlEncode(tz)>>,
       <<"distance_cm", String2(distance_cm)>>,
       <<"sound_db", String2(sound_dbv)>> >>

\* Variant of postToServer that POSTs a second time when the first POST fails.
postToServer_retry(nodeName, iso, tz, distance_cm, sound_dbv, env) ==
    IF ~env.beginOk
    THEN [ret |-> FALSE, httpCodeOut |-> 0, bodyOut |-> EmptyStr, body |-> << >>,
          posts |-> 0]
    ELSE [ret |-> env.code > 0, httpCodeOut |-> env.code, bodyOut |-> env.resp,
          body |-> FormBody(nodeName, iso, tz, distance_cm, sound_dbv),
          posts |-> IF env.code > 0 THEN 1 ELSE 2]

\* env: what the HTTP client does: beginOk is the result of https.begin, code
\* the result of https.POST, resp the result of https.getString.  The result
\* carries the return value, the two out parameters, the body POSTed and the
\* number of https.POST calls made.
postToServer(nodeName, iso, tz, distance_cm, sound_dbv, env) ==
    IF ~env.beginOk
    THEN [ret |-> FALSE, httpCodeOut |-> 0, bodyOut |-> EmptyStr, body |-> << >>,
          posts |-> 0]
    ELSE [ret |-> env.code > 0, httpCodeOut |-> env.code, bodyOut |-> env.resp,
          body |-> FormBody(nodeName, iso, tz, distance_cm, sound_dbv),
          posts |-> 1]

----------------------------------------------------------------------------
(* Cycle controller helpers, main.cpp:140-232 *)

\* Variant of transmitOk with the upper limit off by one.
transmitOk_le300(ok, code) == ok /\ code >= 200 /\ code <= 300

\* return ok && code >= 200 && code < 300, line 147
transmitOk(ok, code) == ok /\ code >= 200 /\ code < 300

\* check_error, lines 151-154
check_error(ok) == IF ~ok THEN "[ERROR] transmit failed" ELSE "[OK] data sent"

\* Variant of afterReadTime that goes on to transmit when read_time failed.
afterReadTime_always(ok) == "transmit"

\* if (!read_time(isoUtc)) { ...; return; }, lines 220-223
afterReadTime(ok) == IF ok THEN "transmit" ELSE "poll"

\* isspace() in the C locale
isspace(c) == c = 32 \/ c \in 9..13

\* String::trim
RECURSIVE trim(_)
trim(s) ==
    IF s = EmptyStr THEN s
    ELSE IF isspace(Head(s)) THEN trim(Tail(s))
    ELSE IF isspace(s[Len(s)]) THEN trim(SubSeq(s, 1, Len(s) - 1))
    ELSE s

PROMPT_TIMEOUT_MS == 10000
PROMPT_POLL_MS == 10

\* The while loop of promptTimeZone, lines 165-172.  in.stream is what arrives
\* on Serial, available from iteration in.at on; e is millis() - t0, n the
\* number of bytes read so far and input the line collected so far.
RECURSIVE promptLoop(_, _, _, _)
promptLoop(in, e, n, input) ==
    IF e < PROMPT_TIMEOUT_MS
    THEN IF e \div PROMPT_POLL_MS >= in.at /\ n < Len(in.stream)
         THEN IF in.stream[n + 1] = 13 \/ in.stream[n + 1] = 10
              THEN [input |-> input, elapsed |-> e]
              ELSE promptLoop(in, e + PROMPT_POLL_MS, n + 1,
                              Append(input, in.stream[n + 1]))
         ELSE IF n >= Len(in.stream) /\ e \div PROMPT_POLL_MS >= in.at
              \* nothing more arrives: the remaining iterations only wait
              THEN [input |-> input, elapsed |-> PROMPT_TIMEOUT_MS]
              \* nothing has arrived yet: the iterations up to in.at only wait
              ELSE promptLoop(in, Min(in.at * PROMPT_POLL_MS, PROMPT_TIMEOUT_MS),
                              n, input)
    ELSE [input |-> input, elapsed |-> e]

\* Variant of promptTimeZone that stores the trimmed line even when it is empty.
promptTimeZone_overwrite(in, tz) ==
    LET r == promptLoop(in, 0, 0, EmptyStr)
    IN  [tzRegion |-> trim(r.input), elapsed |-> r.elapsed]

\* promptTimeZone, lines 159-176: the new tzRegion and the ms spent.
promptTimeZone(in, tz) ==
    LET r == promptLoop(in, 0, 0, EmptyStr)
        t == trim(r.input)
    IN  [tzRegion |-> IF Len(t) > 0 THEN t ELSE tz, elapsed |-> r.elapsed]

----------------------------------------------------------------------------
(* SpecSwitch: check_switch polled at arbitrary instants *)

\* Nothing arrives on Serial.
NoPrompt == [stream |-> EmptyStr, at |-> 0]

\* No function under test.
NoFn == [fn |-> "none"]

\* Intervals between two polls, in ms.
PollDeltas == {1, 100, 150, 251, 300}

InitIdleLoopVars ==
    /\ pc = "harness"
    /\ tzRegion = EmptyStr
    /\ wifiWaits = 0
    /\ envPrompt = NoPrompt
    /\ envWifi = Never
    /\ sampled = {}
    /\ dist_cm = Zero
    /\ sound_db = Zero
    /\ isoUtc = EmptyStr
    /\ timeRes = "none"
    /\ envTime = [wifiFast |-> TRUE, wifiIdx |-> Never, clockIdx |-> Never,
                  stale |-> 0, valid |-> 0]
    /\ httpCode = 0
    /\ httpResp = EmptyStr
    /\ postRet = FALSE
    /\ envHttp = [beginOk |-> FALSE, code |-> 0, requestSent |-> FALSE]
    /\ postBody = << >>
    /\ postsThisCycle = 0
    /\ sent = FALSE
    /\ serialLog = << >>
    /\ stepsDone = << >>

InitIdleFnVars ==
    /\ fnIn = NoFn
    /\ fnOut = NoFn
    /\ fnDone = FALSE

InitIdleEncVars ==
    /\ encIn = EmptyStr
    /\ encOut = EmptyStr
    /\ encDone = FALSE
    /\ InitIdleFnVars

InitSwitch == InitSwitchVars /\ InitIdleLoopVars /\ InitIdleEncVars

\* One call of check_switch, d ms after the previous one.
PollSwitch ==
    /\ pc = "harness"
    /\ nPolls < MaxHarnessPolls
    /\ \E d \in PollDeltas, ultra \in BOOLEAN, sound \in BOOLEAN :
          SwitchPoll(d, ultra, sound, 0)
    /\ UNCHANGED <<loopVars, encVars>>

NextSwitch == PollSwitch

SpecSwitch == InitSwitch /\ [][NextSwitch]_vars

----------------------------------------------------------------------------
(* SpecWrap: check_switch polled around the wrap of the millisecond counter *)

\* Milliseconds left before millis() wraps from 2^32 - 1 to 0.
WrapMargins == {1, 100, 260, 400}

\* The device has idled since boot, 49.7 days ago: no button has fired yet and
\* the counter is about to wrap.
InitWrap ==
    /\ millis \in { [hi |-> Two16 - 1, lo |-> Two16 - k] : k \in WrapMargins }
    /\ lastUltraMs = U32(0)
    /\ lastSoundMs = U32(0)
    /\ ultraPressed = FALSE
    /\ soundPressed = FALSE
    /\ who = NODE_NONE
    /\ nPolls = 0
    /\ gapUltra = Never
    /\ gapSound = Never
    /\ sinceUltra = Never
    /\ sinceSound = Never
    /\ InitIdleLoopVars
    /\ InitIdleEncVars

SpecWrap == InitWrap /\ [][NextSwitch]_vars

----------------------------------------------------------------------------
(* Spec: setup() and the repeated loop(), main.cpp:178-232 *)

\* What may arrive on Serial during the boot prompt: nothing, ENTER at once,
\* a blank line, "UTC" and ENTER after 200 ms, " UTC" without ENTER, "UTC" and
\* ENTER arriving when the 10 s are over.
PromptInputs ==
    { [stream |-> EmptyStr, at |-> 0],
      [stream |-> <<13>>, at |-> 0],
      [stream |-> <<32, 13>>, at |-> 0],
      [stream |-> <<85, 84, 67, 10>>, at |-> 20],
      [stream |-> <<32, 85, 84, 67>>, at |-> 0],
      [stream |-> <<85, 84, 67, 10>>, at |-> 1000] }

\* pulseIn results in microseconds: timeout, an echo from 1 m.
EchoDurations == {0, 5830}

\* Sums of the 200 analog samples: all at mid-point, average 522.
SoundSums == {102400, 104400}

NoClock == [clockIdx |-> Never, stale |-> 0, valid |-> 0]

\* Wi-Fi as getTimeIsoUtc sees it: connected at once, at the last (27th) poll
\* of the wait, one poll too late, never.
WifiEnvs ==
    { [wifiFast |-> TRUE, wifiIdx |-> Never],
      [wifiFast |-> FALSE, wifiIdx |-> 26],
      [wifiFast |-> FALSE, wifiIdx |-> 27],
      [wifiFast |-> FALSE, wifiIdx |-> Never] }

\* The clock as getTimeIsoUtc sees it: valid at once, just above the threshold
\* at the last (48th) poll, one poll too late, stuck at the threshold.
ClockEnvs ==
    { [clockIdx |-> 0, stale |-> 0, valid |-> 1700000000],
      [clockIdx |-> 47, stale |-> MIN_VALID, valid |-> MIN_VALID + 1],
      [clockIdx |-> 48, stale |-> 0, valid |-> 1700000000],
      [clockIdx |-> Never, stale |-> MIN_VALID, valid |-> 0] }

\* The clock is consulted only when the Wi-Fi wait succeeded.
TimeEnvs ==
    { [wifiFast |-> w.wifiFast, wifiIdx |-> w.wifiIdx, clockIdx |-> c.clockIdx,
       stale |-> c.stale, valid |-> c.valid] :
         w \in {x \in WifiEnvs : ensureWifi(x, WIFI_TIMEOUT_MS).ok}, c \in ClockEnvs }
    \cup
    { [wifiFast |-> w.wifiFast, wifiIdx |-> w.wifiIdx, clockIdx |-> NoClock.clockIdx,
       stale |-> NoClock.stale, valid |-> NoClock.valid] :
         w \in {x \in WifiEnvs : ~ensureWifi(x, WIFI_TIMEOUT_MS).ok} }

\* "OK"
RespOk == <<79, 75>>

\* The HTTP client as postToServer sees it.  Negative codes are the client's
\* transport errors: -1 connection failed (nothing sent), -11 read timeout
\* (request sent, no status line received).  ms is the time the exchange takes.
HttpEnvs ==
    { [beginOk |-> FALSE, code |-> 0, resp |-> EmptyStr, requestSent |-> FALSE, ms |-> 0],
      [beginOk |-> TRUE, code |-> 200, resp |-> RespOk, requestSent |-> TRUE, ms |-> 700],
      [beginOk |-> TRUE, code |-> 299, resp |-> RespOk, requestSent |-> TRUE, ms |-> 700],
      [beginOk |-> TRUE, code |-> 199, resp |-> EmptyStr, requestSent |-> TRUE, ms |-> 700],
      [beginOk |-> TRUE, code |-> 300, resp |-> EmptyStr, requestSent |-> TRUE, ms |-> 700],
      [beginOk |-> TRUE, code |-> 0 - 1, resp |-> EmptyStr, requestSent |-> FALSE, ms |-> 700],
      [beginOk |-> TRUE, code |-> 0 - 11, resp |-> EmptyStr, requestSent |-> TRUE, ms |-> 700] }

NoHttp == [beginOk |-> FALSE, code |-> 0, requestSent |-> FALSE]

InitLoopVars ==
    /\ pc = "boot"
    /\ tzRegion = tzDefault
    /\ wifiWaits = 0
    /\ envPrompt = NoPrompt
    /\ envWifi = Never
    /\ sampled = {}
    /\ dist_cm = Zero
    /\ sound_db = Zero
    /\ isoUtc = EmptyStr
    /\ timeRes = "none"
    /\ envTime = [wifiFast |-> TRUE, wifiIdx |-> Never, clockIdx |-> Never,
                  stale |-> 0, valid |-> 0]
    /\ httpCode = 0
    /\ httpResp = EmptyStr
    /\ postRet = FALSE
    /\ envHttp = NoHttp
    /\ postBody = << >>
    /\ postsThisCycle = 0
    /\ sent = FALSE
    /\ serialLog = << >>
    /\ stepsDone = << >>

Init == InitSwitchVars /\ InitLoopVars /\ InitIdleEncVars

cycleVars == <<sampled, dist_cm, sound_db, isoUtc, timeRes, envTime, httpCode, httpResp,
               postRet, envHttp, postBody, postsThisCycle, sent, serialLog, stepsDone>>

\* Wi-Fi as the wait of setup() sees it: WiFi.status() reads connected from
\* the iteration envWifi on; Never: no association.  The model follows the
\* wait for MaxWifiWaits iterations.
SetupWifiEnvs == (0..MaxWifiWaits) \cup {Never}

\* WiFi.status() == WL_CONNECTED, line 195
SetupWifiConnected == envWifi # Never /\ wifiWaits >= envWifi

\* setup() up to WiFi.begin: delay(300), pinMode, promptTimeZone; lines 179-193
Boot ==
    /\ pc = "boot"
    /\ \E in \in PromptInputs :
          \E r \in {promptTimeZone(in, tzRegion)} :
              /\ envPrompt' = in
              /\ tzRegion' = r.tzRegion
              /\ Elapse(300 + r.elapsed)
    /\ envWifi' \in SetupWifiEnvs
    /\ pc' = "wifiwait"
    /\ UNCHANGED <<lastUltraMs, lastSoundMs, ultraPressed, soundPressed, who, nPolls,
                   gapUltra, gapSound, wifiWaits, cycleVars, encVars>>

\* One iteration of while (WiFi.status() != WL_CONNECTED) delay(500); line 195
WifiWait ==
    /\ pc = "wifiwait"
    /\ ~SetupWifiConnected
    /\ wifiWaits < MaxWifiWaits
    /\ wifiWaits' = wifiWaits + 1
    /\ Elapse(500)
    /\ UNCHANGED <<lastUltraMs, lastSoundMs, ultraPressed, soundPressed, who, nPolls,
                   gapUltra, gapSound, pc, tzRegion, envPrompt, envWifi, cycleVars,
                   encVars>>

\* WiFi.status() == WL_CONNECTED: connectionDetails(), setup() returns; 195-197
WifiUp ==
    /\ pc = "wifiwait"
    /\ SetupWifiConnected
    /\ pc' = "poll"
    /\ UNCHANGED <<switchVars, bootVars, cycleVars, encVars>>

\* loop(), lines 202-206: check_switch; on NODE_NONE delay(25) and return,
\* otherwise a cycle starts with fresh locals.  levels: what the two pins may
\* read, as pairs <<distance button LOW, sound button LOW>>.
LoopPoll(levels, maxPolls) ==
    /\ pc = "poll"
    /\ nPolls < maxPolls
    /\ \E b \in levels : SwitchPoll(0, b[1], b[2], 25)
    /\ pc' = IF who' = NODE_NONE THEN "poll" ELSE "read"
    /\ dist_cm' = Zero
    /\ sound_db' = Zero
    /\ isoUtc' = EmptyStr
    /\ timeRes' = "none"
    /\ envTime' = [wifiFast |-> TRUE, wifiIdx |-> Never, clockIdx |-> Never,
                   stale |-> 0, valid |-> 0]
    /\ httpCode' = 0
    /\ httpResp' = EmptyStr
    /\ postRet' = FALSE
    /\ envHttp' = NoHttp
    /\ postBody' = << >>
    /\ postsThisCycle' = 0
    /\ sent' = FALSE
    /\ serialLog' = << >>
    /\ stepsDone' = << >>
    /\ sampled' = {}
    /\ UNCHANGED <<bootVars, encVars>>

CheckSwitch == LoopPoll(BOOLEAN \X BOOLEAN, MaxPolls)

\* loop(), lines 209-216: read only the chosen sensor, 0 for the other field.
ReadSensor ==
    /\ pc = "read"
    /\ \/ /\ who = NODE_ULTRA
          /\ \E duration \in EchoDurations :
                /\ dist_cm' = read_sensor_1(duration)
                /\ sampled' = sampled \cup {"ultrasonic"}
                /\ Elapse(IF duration = 0 THEN 30 ELSE duration \div 1000)
          /\ sound_db' = Zero
       \/ /\ who # NODE_ULTRA
          /\ \E sum \in SoundSums : sound_db' = read_sensor_2(sum)
          /\ sampled' = sampled \cup {"microphone"}
          /\ dist_cm' = Zero
          /\ Elapse((SAMPLES * 200) \div 1000)
    /\ stepsDone' = Append(stepsDone, "read")
    /\ pc' = "time"
    /\ UNCHANGED <<lastUltraMs, lastSoundMs, ultraPressed, soundPressed, who, nPolls,
                   gapUltra, gapSound, bootVars, isoUtc, timeRes, envTime,
                   httpCode, httpResp, postRet, envHttp, postBody, postsThisCycle,
                   sent, serialLog, encVars>>

\* loop(), lines 219-224: read_time; on failure log and return.
ReadTime ==
    /\ pc = "time"
    /\ \E env \in TimeEnvs :
          \E r \in {getTimeIsoUtc(env)} :
              /\ envTime' = env
              /\ isoUtc' = r.outIso
              /\ timeRes' = IF r.ret THEN "ok" ELSE "fail"
              /\ serialLog' = serialLog \o r.log \o
                     (IF r.ret THEN << >> ELSE <<"[ERROR] timeapi.io fetch failed">>)
              /\ pc' = afterReadTime(r.ret)
              /\ Elapse(r.elapsed)
    /\ stepsDone' = Append(stepsDone, "resolve")
    /\ UNCHANGED <<lastUltraMs, lastSoundMs, ultraPressed, soundPressed, who, nPolls,
                   gapUltra, gapSound, bootVars, sampled, dist_cm, sound_db,
                   httpCode, httpResp, postRet, envHttp, postBody, postsThisCycle,
                   sent, encVars>>

\* loop(), line 227: transmit, lines 140-148.
Transmit ==
    /\ pc = "transmit"
    /\ \E env \in HttpEnvs :
          \E r \in {postToServer(IF who = NODE_ULTRA THEN nodeUltraName ELSE nodeSoundName,
                                   isoUtc, tzRegion, dist_cm, sound_db, env)} :
              /\ envHttp' = [beginOk |-> env.beginOk, code |-> env.code,
                             requestSent |-> env.requestSent]
              /\ httpCode' = r.httpCodeOut
              /\ httpResp' = r.bodyOut
              /\ postRet' = r.ret
              /\ postBody' = r.body
              /\ postsThisCycle' = postsThisCycle + r.posts
              /\ sent' = transmitOk(r.ret, r.httpCodeOut)
              /\ Elapse(env.ms)
    /\ stepsDone' = Append(stepsDone, "transmit")
    /\ pc' = "log"
    /\ UNCHANGED <<lastUltraMs, lastSoundMs, ultraPressed, soundPressed, who, nPolls,
                   gapUltra, gapSound, bootVars, sampled, dist_cm, sound_db, isoUtc,
                   timeRes, envTime, serialLog, encVars>>

\* loop(), lines 228-231: check_error(sent); delay(500).
CheckError ==
    /\ pc = "log"
    /\ serialLog' = Append(serialLog, check_error(sent))
    /\ Elapse(500)
    /\ stepsDone' = Append(stepsDone, "log")
    /\ pc' = "poll"
    /\ UNCHANGED <<lastUltraMs, lastSoundMs, ultraPressed, soundPressed, who, nPolls,
                   gapUltra, gapSound, bootVars, sampled, dist_cm, sound_db, isoUtc,
                   timeRes, envTime, httpCode, httpResp, postRet, envHttp, postBody,
                   postsThisCycle, sent, encVars>>

Next ==
    \/ Boot
    \/ WifiWait
    \/ WifiUp
    \/ CheckSwitch
    \/ ReadSensor
    \/ ReadTime
    \/ Transmit
    \/ CheckError

Spec == Init /\ [][Next]_vars

\* loop() is straight-line code whose waits are all bounded: a cycle that has
\* started runs on to its end.
FairSpec ==
    /\ Spec
    /\ WF_vars(ReadSensor)
    /\ WF_vars(ReadTime)
    /\ WF_vars(Transmit)
    /\ WF_vars(CheckError)

\* The program runs as long as the millisecond clock advances: every step
\* that can be taken is taken, in setup() as in loop().
FairBootSpec ==
    /\ FairSpec
    /\ WF_vars(Boot)
    /\ WF_vars(WifiWait)
    /\ WF_vars(WifiUp)

----------------------------------------------------------------------------
(* SpecHeld: setup() and loop() with the buttons held down *)

\* Pins of buttons held down: distance alone, both, sound alone.
HeldLevels == {<<TRUE, FALSE>>, <<TRUE, TRUE>>, <<FALSE, TRUE>>}

\* The first poll finds the buttons as they are held; every later poll finds
\* them as the poll before.
CheckSwitchHeld ==
    LoopPoll(IF nPolls = 0 THEN HeldLevels ELSE {<<ultraPressed, soundPressed>>},
             MaxHeldPolls)

NextHeld ==
    \/ Boot
    \/ WifiWait
    \/ WifiUp
    \/ CheckSwitchHeld
    \/ ReadSensor
    \/ ReadTime
    \/ Transmit
    \/ CheckError

SpecHeld == Init /\ [][NextHeld]_vars

----------------------------------------------------------------------------
(* SpecEnc: urlEncode applied to bounded byte strings *)

\* Bytes enumerated: space, '%', '-', '/', 'A', 'b', '~' and the byte 0xE9.
EncAlphabet == {32, 37, 45, 47, 65, 98, 126, 233}

RECURSIVE SeqsUpTo(_, _)
SeqsUpTo(S, n) ==
    IF n = 0 THEN {EmptyStr}
    ELSE LET shorter == SeqsUpTo(S, n - 1)
         IN  shorter \cup {Append(s, c) : s \in {t \in shorter : Len(t) = n - 1}, c \in S}

\* "A b/c", "a_Z.9~-"
EncExamples == { <<65, 32, 98, 47, 99>>, <<97, 95, 90, 46, 57, 126, 45>> }

InitEnc ==
    /\ InitSwitchVars
    /\ InitIdleLoopVars
    /\ encIn \in SeqsUpTo(EncAlphabet, MaxLen) \cup EncExamples
    /\ encOut = EmptyStr
    /\ encDone = FALSE
    /\ InitIdleFnVars

Encode ==
    /\ pc = "harness"
    /\ ~encDone
    /\ encOut' = urlEncode(encIn)
    /\ encDone' = TRUE
    /\ UNCHANGED <<encIn, fnIn, fnOut, fnDone, switchVars, loopVars>>

NextEnc == Encode

SpecEnc == InitEnc /\ [][NextEnc]_vars

----------------------------------------------------------------------------
(* SpecFn: getTimeIsoUtc, read_sensor_1 and read_sensor_2 applied to bounded inputs *)

PULSE_TIMEOUT_US == 30000
ADC_MAX == 1023

\* Epoch seconds read from the clock: around the validity threshold
\* (2021-01-01), 2023-11-14T22:13:20, the leap day and the year change of
\* 2024, the end of a non-leap February, the change of a day, and the last
\* second a 32-bit signed time_t holds.
TimeBases == {MIN_VALID, 1700000000, 1709251200, 1704067200, 1677628800, 1718236800}

TimeShifts == {0 - 1, 0, 1, 28799, 28800, 28801, 86399}

TimeSamples == {b + d : b \in TimeBases, d \in TimeShifts} \cup {0, 2147483647}

\* Echo durations pulseIn can return: 0 on the timeout, else 1..30000 us.
EchoSamples == 0..PULSE_TIMEOUT_US

\* The 200 analogRead results of one read_sensor_2 call: the first nHi samples
\* read hi, the others lo.
SoundLevels == {0, 1, 412, 502, 510, 511, 512, 513, 514, 522, 612, 1022}

SoundSamples ==
    { [lo |-> v, hi |-> v + 1, nHi |-> k] : v \in SoundLevels, k \in {0, 1, 100, 199} }
    \cup { [lo |-> 0, hi |-> ADC_MAX, nHi |-> k] : k \in {0, 100, 200} }

\* analogRead(PIN_SOUND) at iteration i of the sampling loop
analogRead(in, i) == IF i < in.nHi THEN in.hi ELSE in.lo

\* for (int i=0;i<N;i++) sum += analogRead(PIN_SOUND); line 130: what the
\* iterations from..to-1 add to sum, the range split in halves.
RECURSIVE sampleLoop(_, _, _)
sampleLoop(in, from, to) ==
    IF to <= from THEN 0
    ELSE IF to = from + 1 THEN analogRead(in, from)
    ELSE LET mid == (from + to) \div 2
         IN  sampleLoop(in, from, mid) + sampleLoop(in, mid, to)

InitFn ==
    /\ InitSwitchVars
    /\ InitIdleLoopVars
    /\ encIn = EmptyStr
    /\ encOut = EmptyStr
    /\ encDone = FALSE
    /\ fnIn \in { [fn |-> "time", T |-> t] : t \in TimeSamples }
              \cup { [fn |-> "echo", duration |-> d] : d \in EchoSamples }
              \cup { [fn |-> "sound", samples |-> x] : x \in SoundSamples }
    /\ fnOut = NoFn
    /\ fnDone = FALSE

\* getTimeIsoUtc with Wi-Fi connected and the clock reading fnIn.T throughout.
ApplyTime ==
    /\ ~fnDone
    /\ fnIn.fn = "time"
    /\ fnOut' = getTimeIsoUtc([wifiFast |-> TRUE, wifiIdx |-> Never, clockIdx |-> 0,
                               stale |-> fnIn.T, valid |-> fnIn.T])
    /\ fnDone' = TRUE
    /\ UNCHANGED <<fnIn, encIn, encOut, encDone, switchVars, loopVars>>

\* read_sensor_1 with pulseIn returning fnIn.duration.
ApplyEcho ==
    /\ ~fnDone
    /\ fnIn.fn = "echo"
    /\ fnOut' = read_sensor_1(fnIn.duration)
    /\ fnDone' = TRUE
    /\ UNCHANGED <<fnIn, encIn, encOut, encDone, switchVars, loopVars>>

\* read_sensor_2 with analogRead returning fnIn.samples.
ApplySound ==
    /\ ~fnDone
    /\ fnIn.fn = "sound"
    /\ fnOut' = read_sensor_2(sampleLoop(fnIn.samples, 0, SAMPLES))
    /\ fnDone' = TRUE
    /\ UNCHANGED <<fnIn, encIn, encOut, encDone, switchVars, loopVars>>

NextFn == ApplyTime \/ ApplyEcho \/ ApplySound

SpecFn == InitFn /\ [][NextFn]_vars

----------------------------------------------------------------------------
(* Claims on check_switch, checked under SpecSwitch *)

\* C1: a distance (sound) request is never produced by a poll that comes less
\* than 250 ms of real time after the previous distance (sound) request, even
\* with the button active: of two same-signal triggers closer than the window
\* only the first yields a request.
C1_DebounceWindow ==
    /\ (who = NODE_ULTRA /\ gapUltra # Never) => gapUltra >= DEBOUNCE
    /\ (who = NODE_SOUND /\ gapSound # Never) => gapSound >= DEBOUNCE

\* A poll with the distance button active, 1..249 ms after a distance request,
\* that yields no request.
C1_Witness ==
    /\ nPolls >= 2
    /\ ultraPressed /\ ~soundPressed
    /\ gapUltra # Never /\ gapUltra > 0 /\ gapUltra < DEBOUNCE
    /\ who = NODE_NONE

\* C2 as stated: with both buttons active the call never returns NODE_SOUND.
C2_NeverSoundWhenBoth ==
    (nPolls > 0 /\ ultraPressed /\ soundPressed) => who # NODE_SOUND

\* C2 amended: with both buttons active, the call returns NODE_ULTRA whenever
\* the distance signal passes its own debounce test (now - lastUltraMs > 250 in
\* 32-bit unsigned arithmetic); it returns NODE_SOUND only when the distance
\* signal is inside its window and the sound signal is outside its own.
C2_PriorityWhenEligible ==
    [][ (nPolls' # nPolls /\ ultraPressed' /\ soundPressed') =>
          IF Gt32(Sub32(millis', lastUltraMs), DEBOUNCE)
          THEN who' = NODE_ULTRA
          ELSE /\ who' # NODE_ULTRA
               /\ who' = NODE_SOUND <=> Gt32(Sub32(millis', lastSoundMs), DEBOUNCE) ]_vars

\* Both buttons active, both signals outside their windows: distance wins.
C2_Witness ==
    /\ nPolls >= 2
    /\ ultraPressed /\ soundPressed
    /\ gapUltra # Never /\ gapUltra > DEBOUNCE
    /\ gapSound # Never /\ gapSound > DEBOUNCE
    /\ who = NODE_ULTRA

\* C3: a call of check_switch changes only the last-fired time of the winning
\* signal: NODE_ULTRA sets lastUltraMs to the current time and leaves
\* lastSoundMs, NODE_SOUND sets lastSoundMs and leaves lastUltraMs, NODE_NONE
\* leaves both; nothing else of the program's state changes.
C3_FrameOfCheckSwitch ==
    [][ (nPolls' # nPolls) =>
          /\ who' \in {NODE_NONE, NODE_ULTRA, NODE_SOUND}
          /\ who' = NODE_ULTRA => (lastUltraMs' = millis' /\ lastSoundMs' = lastSoundMs)
          /\ who' = NODE_SOUND => (lastSoundMs' = millis' /\ lastUltraMs' = lastUltraMs)
          /\ who' = NODE_NONE => (lastUltraMs' = lastUltraMs /\ lastSoundMs' = lastSoundMs)
          /\ UNCHANGED <<loopVars, encVars>> ]_vars

\* A distance request issued while the sound button's time holds an earlier,
\* different stamp that the call left alone.
C3_Witness ==
    /\ who = NODE_ULTRA
    /\ lastUltraMs = millis
    /\ lastSoundMs # U32(0)
    /\ lastSoundMs # lastUltraMs

----------------------------------------------------------------------------
(* Claims on the measurement cycle, checked under Spec and FairSpec *)

Did(step) == step \in Range(stepsDone)

Sampling == pc \in {"read", "time", "transmit", "log"}

FullSequence == <<"read", "resolve", "transmit", "log">>

\* No poll of the Wi-Fi wait made before the 8 s timeout reads connected.
WifiTimedOut(env) ==
    /\ ~env.wifiFast
    /\ env.wifiIdx = Never \/ env.wifiIdx * WIFI_POLL_MS >= WIFI_TIMEOUT_MS

\* No poll of the clock made before the 12 s timeout reads above 1609459200.
ClockNeverValid(env) ==
    \/ env.clockIdx = Never
    \/ env.clockIdx * NTP_POLL_MS >= NTP_TIMEOUT_MS
    \/ env.valid <= 1609459200

\* C4: getTimeIsoUtc fails exactly when the Wi-Fi wait times out or the clock
\* never reads above the validity threshold within the clock timeout; it then
\* leaves the timestamp empty, the cycle makes no POST and the loop is back at
\* polling the buttons.
C4_TimeFailure ==
    /\ timeRes \in {"ok", "fail"} =>
          (timeRes = "fail" <=> (WifiTimedOut(envTime) \/ ClockNeverValid(envTime)))
    /\ timeRes = "fail" =>
          /\ isoUtc = EmptyStr
          /\ postsThisCycle = 0
          /\ ~Did("transmit")
          /\ pc = "poll"

\* The clock stayed at the threshold for 12 s although Wi-Fi was connected.
C4_Witness ==
    /\ timeRes = "fail"
    /\ envTime.wifiFast
    /\ envTime.stale = MIN_VALID
    /\ pc = "poll"

\* C5 as stated: every call of postToServer makes exactly one POST.
C5_ExactlyOnePost == Did("transmit") => postsThisCycle = 1

\* C5 amended: a call of postToServer makes at most one POST, exactly one when
\* https.begin succeeds and none when it fails; no cycle issues more than one
\* POST, whatever the first attempt returned.
C5_AtMostOnePost ==
    /\ postsThisCycle <= 1
    /\ Did("transmit") => postsThisCycle = (IF envHttp.beginOk THEN 1 ELSE 0)
    /\ ~Did("transmit") => postsThisCycle = 0

\* A cycle that ended after a POST that failed in transport, with one POST made.
C5_Witness ==
    /\ pc = "poll"
    /\ Did("log")
    /\ envHttp.beginOk
    /\ httpCode < 0
    /\ postsThisCycle = 1

\* C6 as stated: postToServer returns true if a transaction was attempted and
\* false only if setup or connection failed before anything was sent; on a
\* setup failure the status code stays 0 and the response body empty.
C6_AttemptReported ==
    Did("transmit") =>
        /\ envHttp.requestSent => postRet
        /\ ~envHttp.beginOk => (~postRet /\ httpCode = 0 /\ httpResp = EmptyStr)

\* C7: the cycle reports success exactly when postToServer returned true with a
\* status code in 200..299, and logs "[OK] data sent" then and "[ERROR]
\* transmit failed" otherwise.
C7_SuccessIff2xx ==
    /\ Did("transmit") => (sent <=> (postRet /\ httpCode >= 200 /\ httpCode <= 299))
    /\ Did("log") =>
          serialLog[Len(serialLog)] =
              IF postRet /\ httpCode \in 200..299
              THEN "[OK] data sent" ELSE "[ERROR] transmit failed"

\* HTTP 200: the cycle logged success.
C7_Witness ==
    /\ Did("log")
    /\ httpCode = 200
    /\ sent
    /\ serialLog[Len(serialLog)] = "[OK] data sent"

\* C8 as stated: every return from SAMPLING to IDLE comes after one full
\* read-resolve-transmit-log sequence, whatever the outcome of any step.
C8_FullSequenceAlways ==
    (pc = "poll" /\ nPolls > 0 /\ who # NODE_NONE) => stepsDone = FullSequence

\* C8 amended: the controller leaves IDLE only on a debounced input; buttons are
\* polled only in IDLE; SAMPLING returns to IDLE after one read-resolve-
\* transmit-log sequence when time resolution succeeds and right after the
\* resolve step, with no transmit and no log, when it fails; and every SAMPLING
\* state is followed by IDLE.
C8_CycleController ==
    /\ [][ /\ (pc = "poll" /\ pc' # "poll") =>
                /\ nPolls' = nPolls + 1
                /\ pc' = "read"
                /\ who' \in {NODE_ULTRA, NODE_SOUND}
                /\ who' = NODE_ULTRA =>
                      (ultraPressed' /\ Gt32(Sub32(millis, lastUltraMs), DEBOUNCE))
                /\ who' = NODE_SOUND =>
                      (soundPressed' /\ Gt32(Sub32(millis, lastSoundMs), DEBOUNCE))
           /\ (nPolls' # nPolls) => pc = "poll"
           /\ (Sampling /\ pc' = "poll") =>
                stepsDone' = IF timeRes' = "fail" THEN <<"read", "resolve">>
                             ELSE FullSequence ]_vars
    /\ (Sampling ~> pc = "poll")

\* A cycle that ran the full sequence and is back in IDLE.
C8_Witness ==
    /\ pc = "poll"
    /\ who # NODE_NONE
    /\ stepsDone = FullSequence

\* C9 as stated: when the distance echo is not received the cycle is abandoned
\* without resolving a timestamp or POSTing the reading.
C9_SensorTimeoutAbandons ==
    (who = NODE_ULTRA /\ dist_cm.isnan) => (~Did("resolve") /\ postsThisCycle = 0)

\* s is a number in fixed format with two decimals: digits, '.', two digits.
IsTwoDecimal(s) ==
    /\ Len(s) >= 4
    /\ s[Len(s) - 2] = 46
    /\ \A i \in (1..Len(s)) \ {Len(s) - 2} : s[i] \in 48..57

FieldNames == <<"node_name", "measured_iso", "tz_region", "distance_cm", "sound_db">>

\* "0.00"
ZeroText == <<48, 46, 48, 48>>

\* C14 as stated: every POST body consists of the five fields node_name,
\* measured_iso, tz_region, distance_cm, sound_db in that order, both numbers
\* with two decimals; a distance cycle sends "Ultrasonic_Sensor" with sound_db
\* 0.00 and never samples the microphone, a sound cycle sends
\* "Sound_Sensor_MAX4466" with distance_cm 0.00 and never triggers the pulse.
C14_BodyOfSelectedSensor ==
    postsThisCycle > 0 =>
        /\ Len(postBody) = 5
        /\ \A i \in 1..5 : postBody[i][1] = FieldNames[i]
        /\ IsTwoDecimal(postBody[4][2])
        /\ IsTwoDecimal(postBody[5][2])
        /\ who \in {NODE_ULTRA, NODE_SOUND}
        /\ who = NODE_ULTRA =>
              /\ postBody[1][2] = nodeUltraName
              /\ postBody[5][2] = ZeroText
              /\ sampled = {"ultrasonic"}
        /\ who = NODE_SOUND =>
              /\ postBody[1][2] = nodeSoundName
              /\ postBody[4][2] = ZeroText
              /\ sampled = {"microphone"}

----------------------------------------------------------------------------
(* Claims on urlEncode, checked under SpecEnc *)

UnreservedBytes == (48..57) \cup (65..90) \cup (97..122) \cup {45, 95, 46, 126}

HexValue(c) == IF c \in 48..57 THEN c - 48 ELSE IF c \in 65..70 THEN c - 55 ELSE Never

\* Percent-decoding: %HH becomes the byte with the hex value HH.
RECURSIVE PercentDecode(_)
PercentDecode(s) ==
    IF s = EmptyStr THEN EmptyStr
    ELSE IF s[1] = 37 /\ Len(s) >= 3
    THEN <<16 * HexValue(s[2]) + HexValue(s[3])>> \o PercentDecode(SubSeq(s, 4, Len(s)))
    ELSE <<s[1]>> \o PercentDecode(Tail(s))

\* C10: urlEncode keeps alphanumerics and - _ . ~ and turns every other byte
\* into % and its two upper-case hex digits ("A b/c" becomes "A%20b%2Fc");
\* percent-decoding the result gives back the argument.
C10_UrlEncode ==
    encDone =>
        /\ PercentDecode(encOut) = encIn
        /\ Len(encOut) = Len(encIn)
               + 2 * Cardinality({i \in 1..Len(encIn) : encIn[i] \notin UnreservedBytes})
        /\ \A i \in 1..Len(encOut) :
              \/ encOut[i] \in UnreservedBytes
              \/ /\ encOut[i] = 37
                 /\ i + 2 <= Len(encOut)
                 /\ HexValue(encOut[i + 1]) # Never
                 /\ HexValue(encOut[i + 2]) # Never
        /\ (\A i \in 1..Len(encIn) : encIn[i] \in UnreservedBytes) => encOut = encIn
        /\ encIn = <<65, 32, 98, 47, 99>> => encOut = <<65, 37, 50, 48, 98, 37, 50, 70, 99>>

\* "A b/c" encoded as "A%20b%2Fc".
C10_Witness ==
    /\ encDone
    /\ encIn = <<65, 32, 98, 47, 99>>
    /\ encOut = <<65, 37, 50, 48, 98, 37, 50, 70, 99>>

----------------------------------------------------------------------------
(* Claims on the time resolver and the sensor readers, checked under SpecFn *)

IsDigit(c) == c \in 48..57

\* The decimal number written in s[i..j].
RECURSIVE Num(_, _, _)
Num(s, i, j) == IF i > j THEN 0 ELSE 10 * Num(s, i, j - 1) + (s[j] - 48)

IsLeap(y) == (y % 4 = 0 /\ y % 100 # 0) \/ y % 400 = 0

\* Leap years among the years 1..n.
LeapsUpTo(n) == n \div 4 - n \div 100 + n \div 400

DaysIn(y, m) ==
    IF m = 2 THEN (IF IsLeap(y) THEN 29 ELSE 28)
    ELSE IF m \in {4, 6, 9, 11} THEN 30 ELSE 31

RECURSIVE DaysBeforeMonth(_, _)
DaysBeforeMonth(y, m) == IF m <= 1 THEN 0 ELSE DaysBeforeMonth(y, m - 1) + DaysIn(y, m - 1)

\* Seconds since 1970-01-01T00:00:00 of a civil date and time in UTC.
TimeGm(y, m, d, hh, mm, ss) ==
    LET days == 365 * (y - 1970) + (LeapsUpTo(y - 1) - LeapsUpTo(1969))
                + DaysBeforeMonth(y, m) + (d - 1)
    IN  days * 86400 + hh * 3600 + mm * 60 + ss

\* s is YYYY-MM-DDTHH:MM:SS and names an existing date and time of day.
IsIsoStamp(s) ==
    /\ Len(s) = 19
    /\ s[5] = 45 /\ s[8] = 45 /\ s[11] = 84 /\ s[14] = 58 /\ s[17] = 58
    /\ \A i \in (1..19) \ {5, 8, 11, 14, 17} : IsDigit(s[i])
    /\ Num(s, 6, 7) \in 1..12
    /\ Num(s, 9, 10) \in 1..DaysIn(Num(s, 1, 4), Num(s, 6, 7))
    /\ Num(s, 12, 13) \in 0..23
    /\ Num(s, 15, 16) \in 0..59
    /\ Num(s, 18, 19) \in 0..59

IsoToEpoch(s) ==
    TimeGm(Num(s, 1, 4), Num(s, 6, 7), Num(s, 9, 10),
           Num(s, 12, 13), Num(s, 15, 16), Num(s, 18, 19))

\* "2023-11-14T14:13:20"
Iso1700000000 == <<50, 48, 50, 51, 45, 49, 49, 45, 49, 52, 84, 49, 52, 58, 49, 51,
                   58, 50, 48>>

RECURSIVE Gcd(_, _)
Gcd(a, b) == IF b = 0 THEN a ELSE Gcd(b, a % b)

\* The number x is the fraction n/d, n >= 0, d > 0.
IsFraction(x, n, d) ==
    /\ ~x.isnan
    /\ x.den > 0
    /\ x.num \div Gcd(x.num, x.den) = n \div Gcd(n, d)
    /\ x.den \div Gcd(x.num, x.den) = d \div Gcd(n, d)

\* C12: read_sensor_1 returns the not-a-number sentinel exactly when the echo
\* duration D is 0, and for every other D returns D * 0.0343 / 2 cm, that is
\* D * 343 / 20000: 17.15 cm for 1000 us, 99.98 cm (to two decimals) for 5830 us.
C12_DistanceConversion ==
    (fnDone /\ fnIn.fn = "echo") =>
        /\ fnOut.isnan <=> fnIn.duration = 0
        /\ fnIn.duration # 0 => IsFraction(fnOut, fnIn.duration * 343, 20000)
        /\ fnIn.duration = 1000 => String2(fnOut) = <<49, 55, 46, 49, 53>>
        /\ fnIn.duration = 5830 => String2(fnOut) = <<57, 57, 46, 57, 56>>

\* An echo of 5830 us converted to 99.9845 cm.
C12_Witness ==
    /\ fnDone
    /\ fnIn.fn = "echo"
    /\ fnIn.duration = 5830
    /\ IsFraction(fnOut, 999845, 10000)

\* The sum of the samples of x, counted sample by sample.
SumOfSamples(x) == x.lo * (200 - x.nHi) + x.hi * x.nHi

\* The level x, in dB, is within 0.02 of h hundredths.
IsAboutDb(x, h) == ~x.isnan /\ x.den = 100 /\ x.num \in (h - 2)..(h + 2)

\* C13: read_sensor_2 averages exactly 200 samples and returns, for all sample
\* values in 0..1023, a finite value that is never negative; when the average
\* lies within 1 of the mid-point 512 (all samples at 512 included) the
\* deviation is floored to 1 and the level is exactly 0.  The average of 200
\* samples shows in the levels of constant inputs: 20 dB at 522, 40 dB at 412
\* and 612, 54.19 dB at 0.
C13_SoundLevel ==
    (fnDone /\ fnIn.fn = "sound") =>
        LET x == fnIn.samples
            dev200 == Abs(SumOfSamples(x) - 512 * 200)
        IN  /\ ~fnOut.isnan
            /\ fnOut.den > 0
            /\ fnOut.num >= 0
            /\ dev200 <= 200 => fnOut.num = 0
            /\ dev200 >= 2 * 200 => fnOut.num > 0
            /\ (x.nHi = 0 /\ x.lo = 522) => IsAboutDb(fnOut, 2000)
            /\ (x.nHi = 0 /\ x.lo \in {412, 612}) => IsAboutDb(fnOut, 4000)
            /\ (x.nHi = 0 /\ x.lo = 0) => IsAboutDb(fnOut, 5419)

\* 200 samples at the mid-point: level 0.
C13_Witness ==
    /\ fnDone
    /\ fnIn.fn = "sound"
    /\ fnIn.samples.lo = 512 /\ fnIn.samples.nHi = 0
    /\ ~fnOut.isnan
    /\ fnOut.num = 0

----------------------------------------------------------------------------
(* Claims on the boot sequence and on repeated cycles *)

\* The bytes of in.stream that the prompt reads: byte k is read in iteration
\* in.at + k - 1 of the loop, 10 ms apart, while fewer than 10 s have passed.
BytesInTime(in) ==
    LET ks == {k \in 1..Len(in.stream) : (in.at + k - 1) * 10 < 10000}
    IN  SubSeq(in.stream, 1, Cardinality(ks))

\* The line typed: what was read before the first CR or LF.
TypedLine(in) ==
    LET b == BytesInTime(in)
        ends == {k \in 1..Len(b) : b[k] \in {10, 13}}
        first == IF ends = {} THEN Len(b) + 1
                 ELSE CHOOSE k \in ends : \A j \in ends : k <= j
    IN  SubSeq(b, 1, first - 1)

\* s without its leading and trailing white space.
Stripped(s) ==
    LET black == {k \in 1..Len(s) : ~(s[k] = 32 \/ s[k] \in 9..13)}
    IN  IF black = {} THEN << >>
        ELSE SubSeq(s, CHOOSE k \in black : \A j \in black : k <= j,
                       CHOOSE k \in black : \A j \in black : k >= j)

C16_EveryWaitEnds ==
    /\ pc = "boot" ~> pc = "wifiwait"
    /\ pc = "wifiwait" ~> pc = "poll"
    /\ pc = "time" ~> pc \in {"transmit", "poll"}

\* C17 as stated: the debounce test stays correct when the counter wraps: at a
\* poll with the button active the press is suppressed exactly when the
\* previous request of that signal is at most 250 ms of real time old, and it
\* is never suppressed when that signal has not fired yet (last-fired time
\* still 0).
C17_DebounceAcrossWrap ==
    /\ (nPolls > 0 /\ ultraPressed) =>
          (who = NODE_ULTRA <=> (gapUltra = Never \/ gapUltra > DEBOUNCE))
    /\ (nPolls > 0 /\ soundPressed /\ who # NODE_ULTRA) =>
          (who = NODE_SOUND <=> (gapSound = Never \/ gapSound > DEBOUNCE))

\* Real ms since the request that started the latest cycle (saturating).
SinceRequest == IF who = NODE_ULTRA THEN sinceUltra ELSE sinceSound

\* Real ms between the latest poll and the previous request of the signal it
\* accepted (saturating).
GapOfRequest == IF who = NODE_ULTRA THEN gapUltra ELSE gapSound

====
